---- MODULE Spec2Model ----
(***************************************************************************)
(* LMX2820 signal-generator controller: the controller state machine       *)
(* RFFSM (src/fsm.py), the device driver LMX2820 (src/lmx2820.py), the     *)
(* integer-N frequency planner (src/frequency_plan.py), the bit-field      *)
(* helper set_field (src/register_map.py) and the mock hardware back ends  *)
(* MockSPI / MockGPIO (src/spi.py, src/gpio.py).                           *)
(*                                                                         *)
(* Frequencies are counted in MHz (source value / 10^6): every constant of *)
(* the planner is a whole number of MHz and Python integers are unbounded, *)
(* so the change of unit changes no comparison, product or remainder.      *)
(*                                                                         *)
(* The driver names registers R_<FIELD>; src/register_map.py names the     *)
(* same registers <FIELD>_REG.  R_<FIELD> below carries the address that   *)
(* register_map.py gives <FIELD>_REG, and the masks are those of           *)
(* register_map.py.                                                        *)
(***************************************************************************)
EXTENDS Integers, Sequences, FiniteSets, TLC

\* ---------------------------------------------------------------- bounds
\* lock-detect behaviours are the sample sequences of length 1..MaxLdLen,
\* the last sample repeating for ever
MaxLdLen == 2

\* ---------------------------------------------------------------- values
\* Python's None (current_freq_hz, sp4t_pos, plan["chdiv"])
NONE == -1

\* RFState
POWER_OFF == "POWER_OFF"
STANDBY == "STANDBY"
READY == "READY"
ERROR == "ERROR"

RFState == {POWER_OFF, STANDBY, READY, ERROR}

\* no exception pending / no error recorded
NoExc == ""

\* ---------------------------------------------------------------- register map
LMX2820_NUM_REGS == 123

R_PLL_NUM == 43
PLL_NUM_MASK == 65535
PLL_NUM_SHIFT == 0

R_PLL_DEN == 39
PLL_DEN_MASK == 65535
PLL_DEN_SHIFT == 0

R_PLL_N == 36
PLL_N_MASK == 32767
PLL_N_SHIFT == 0

R_CHDIV == 32
CHDIV_MASK == 448
CHDIV_SHIFT == 6

R_OUTA_MUX == 78
OUTA_MUX_MASK == 3
OUTA_MUX_SHIFT == 0

R_RFOUTA_PWR == 79
RFOUTA_PWR_MASK == 14
RFOUTA_PWR_SHIFT == 1

R_RFOUTA_EN == 78
RFOUTA_EN_MASK == 16
RFOUTA_EN_SHIFT == 4

R_VCO_CAL == 0
VCO_CAL_MASK == 16
VCO_CAL_SHIFT == 4

\* MockSPI.write limits
SPI_MAX_REG == 127
SPI_MAX_VALUE == 65535

Regs == 0 .. (LMX2820_NUM_REGS - 1)

\* ---------------------------------------------------------------- bit operations
RECURSIVE BitAnd(_, _)
BitAnd(a, b) ==
    IF a = 0 \/ b = 0 THEN 0
    ELSE (a % 2) * (b % 2) + 2 * BitAnd(a \div 2, b \div 2)

RECURSIVE BitOr(_, _)
BitOr(a, b) ==
    IF a = 0 THEN b
    ELSE IF b = 0 THEN a
    ELSE (IF (a % 2) + (b % 2) > 0 THEN 1 ELSE 0) + 2 * BitOr(a \div 2, b \div 2)

RECURSIVE Pow2(_)
Pow2(n) == IF n = 0 THEN 1 ELSE 2 * Pow2(n - 1)

\* value << shift
ShiftLeft(value, shift) == value * Pow2(shift)

\* mutant of set_field: the field is not cleared first and the new bits are added in
set_field_NoClear(reg_val, mask, shift, value) ==
    reg_val + BitAnd(ShiftLeft(value, shift), mask)

\* reg_val &= ~mask ; reg_val |= (value << shift) & mask
set_field(reg_val, mask, shift, value) ==
    BitOr(reg_val - BitAnd(reg_val, mask), BitAnd(ShiftLeft(value, shift), mask))

\* the field of a register value, shifted down (inverse view of set_field)
get_field(reg_val, mask, shift) == BitAnd(reg_val, mask) \div Pow2(shift)

\* ---------------------------------------------------------------- planner
F_REF_HZ == 50
STEP_HZ == 100
VCO_MIN == 5650
VCO_MAX == 11300
FREQ_MIN == 1000
FREQ_MAX == 40000
PLL_N_MIN == 12
PLL_N_MAX == 32767
PLAN_POWER == 7

CHDIV_CANDIDATES == <<2, 4, 8, 16, 32, 64, 128>>

NoPlan ==
    [N |-> NONE, chdiv |-> NONE, outa_mux |-> NONE, band |-> "None",
     power |-> NONE, external_doubler |-> FALSE]

\* a raise of the planner: exception class, message; vco_hz is the local of that name
PlanFail(kind, msg) ==
    [ok |-> FALSE, exc |-> kind, msg |-> msg, plan |-> NoPlan, vco_hz |-> NONE]

\* mutant of VcoInRange: the lower limit is not tested
VcoInRange_NoLowerLimit(vco) == vco <= VCO_MAX

\* VCO_MIN <= vco_hz <= VCO_MAX
VcoInRange(vco) == VCO_MIN <= vco /\ vco <= VCO_MAX

\* mutant of FirstChdiv: the lower VCO limit is not tested
FirstChdiv_NoLowerBound(freq, i) ==
    LET q == {j \in i .. Len(CHDIV_CANDIDATES) : freq * CHDIV_CANDIDATES[j] <= VCO_MAX}
    IN  IF q = {} THEN NONE
        ELSE CHDIV_CANDIDATES[CHOOSE j \in q : \A k \in q : j <= k]

\* for div in [2, 4, ...]: first div with VCO_MIN <= freq*div <= VCO_MAX, else NONE
RECURSIVE FirstChdiv(_, _)
FirstChdiv(freq, i) ==
    IF i > Len(CHDIV_CANDIDATES) THEN NONE
    ELSE IF VcoInRange(freq * CHDIV_CANDIDATES[i])
         THEN CHDIV_CANDIDATES[i]
         ELSE FirstChdiv(freq, i + 1)

\* the band ladder: band tag, mux, external doubler, chdiv, vco, or a failure
BandSelect(freq) ==
    IF freq <= 5650 THEN
        LET div == FirstChdiv(freq, 1) IN
        IF div = NONE THEN [fail |-> "No valid CHDIV for frequency"]
        ELSE [fail |-> NoExc, band |-> "1_10", outa_mux |-> 0,
              external_doubler |-> FALSE, chdiv |-> div, vco |-> freq * div]
    ELSE IF freq <= 10000 THEN
        IF ~VcoInRange(freq) THEN [fail |-> "VCO out of range in 5.65-10 GHz range"]
        ELSE [fail |-> NoExc, band |-> "1_10", outa_mux |-> 1,
              external_doubler |-> FALSE, chdiv |-> NONE, vco |-> freq]
    ELSE IF freq <= 11300 THEN
        [fail |-> NoExc, band |-> "10_22", outa_mux |-> 1,
         external_doubler |-> FALSE, chdiv |-> NONE, vco |-> freq]
    ELSE IF freq <= 22600 THEN
        IF ~VcoInRange(freq \div 2) THEN [fail |-> "VCO out of range in 11.3-22.6 GHz range"]
        ELSE [fail |-> NoExc, band |-> "10_22", outa_mux |-> 2,
              external_doubler |-> FALSE, chdiv |-> NONE, vco |-> freq \div 2]
    ELSE IF freq <= 30000 THEN
        IF ~VcoInRange(freq \div 4) THEN [fail |-> "VCO out of range in 22.6-30 GHz range"]
        ELSE [fail |-> NoExc, band |-> "22_30", outa_mux |-> 2,
              external_doubler |-> TRUE, chdiv |-> NONE, vco |-> freq \div 4]
    ELSE
        IF ~VcoInRange(freq \div 4) THEN [fail |-> "VCO out of range in 30-40 GHz range"]
        ELSE [fail |-> NoExc, band |-> "30_40", outa_mux |-> 2,
              external_doubler |-> TRUE, chdiv |-> NONE, vco |-> freq \div 4]

\* mutant of RangeOk: no upper limit
RangeOk_NoUpperLimit(freq) == FREQ_MIN <= freq

\* 1_000_000_000 <= freq_hz <= 40_000_000_000
RangeOk(freq) == FREQ_MIN <= freq /\ freq <= FREQ_MAX

\* mutant of StepOk: the reference frequency taken as the step
StepOk_ReferenceStep(freq) == freq % F_REF_HZ = 0

\* freq_hz % STEP_HZ == 0
StepOk(freq) == freq % STEP_HZ = 0

\* mutant of ExactMultiple: the remainder is not tested, the quotient truncates
ExactMultiple_Truncating(vco) == vco >= 0

\* vco_hz % F_REF_HZ == 0
ExactMultiple(vco) == vco % F_REF_HZ = 0

compute_frequency_plan_integer_n(freq) ==
    IF ~RangeOk(freq)
    THEN PlanFail("ValueError", "Frequency must be between 1 and 40 GHz")
    ELSE IF ~StepOk(freq)
    THEN PlanFail("ValueError", "Frequency must be in 100 MHz steps")
    ELSE LET b == BandSelect(freq) IN
         IF b.fail # NoExc THEN PlanFail("FrequencyPlanError", b.fail)
         ELSE IF ~ExactMultiple(b.vco)
         THEN PlanFail("FrequencyPlanError",
                       "VCO frequency is not an integer multiple of reference")
         ELSE LET pll_n == b.vco \div F_REF_HZ IN
              IF ~(PLL_N_MIN <= pll_n /\ pll_n <= PLL_N_MAX)
              THEN PlanFail("FrequencyPlanError", "PLL N out of valid range")
              ELSE [ok |-> TRUE, exc |-> NoExc, msg |-> NoExc,
                    plan |-> [N |-> pll_n, chdiv |-> b.chdiv, outa_mux |-> b.outa_mux,
                              band |-> b.band, power |-> PLAN_POWER,
                              external_doubler |-> b.external_doubler],
                    vco_hz |-> b.vco]

\* ---------------------------------------------------------------- hardware events
\* one record per call into MockSPI / MockGPIO, in call order; booleans are 0/1
SpiEv(reg, value) == [k |-> "spi.write", a |-> reg, v |-> value]
GpioEv(fn, value) == [k |-> fn, a |-> 0, v |-> value]
B2N(b) == IF b THEN 1 ELSE 0

\* ---------------------------------------------------------------- execution context
\* The objects a controller call works on (LMX2820 fields, MockGPIO fields, the
\* recorded error, the hardware calls made so far in this call) and the exception
\* in flight, if any.  A statement reached with an exception in flight does not run.
Raised(m) == m.exc # NoExc
Raise(m, msg) == [m EXCEPT !.exc = msg]
Log(m, e) == [m EXCEPT !.trace = Append(@, e)]

\* MockSPI.write
SpiWrite(m, reg, value) ==
    IF Raised(m) THEN m
    ELSE IF ~(0 <= reg /\ reg <= SPI_MAX_REG)
    THEN Raise(m, "Register address out of range")
    ELSE IF ~(0 <= value /\ value <= SPI_MAX_VALUE)
    THEN Raise(m, "Register value out of range")
    ELSE Log(m, SpiEv(reg, value))

\* MockGPIO.power_enable
GpioPowerEnable(m, enable) ==
    IF Raised(m) THEN m
    ELSE Log([m EXCEPT !.powered = enable], GpioEv("power_enable", B2N(enable)))

\* MockGPIO.reset_pulse
GpioResetPulse(m) ==
    IF Raised(m) THEN m ELSE Log(m, GpioEv("reset_pulse", 0))

\* MockGPIO.rf_enable
GpioRfEnable(m, enable) ==
    IF Raised(m) THEN m
    ELSE Log([m EXCEPT !.rf_enabled = enable], GpioEv("rf_enable", B2N(enable)))

\* MockGPIO.set_sp4t
GpioSetSp4t(m, position) ==
    IF Raised(m) THEN m
    ELSE IF position \notin {0, 1, 2, 3} THEN Raise(m, "SP4T position must be 0-3")
    ELSE Log([m EXCEPT !.sp4t_pos = position], GpioEv("set_sp4t", position))

\* MockGPIO.external_doubler_enable
GpioExternalDoublerEnable(m, enable) ==
    IF Raised(m) THEN m
    ELSE Log([m EXCEPT !.external_doubler = enable],
             GpioEv("external_doubler_enable", B2N(enable)))

\* self.reg_image[reg] = set_field(self.reg_image[reg], mask, shift, value);
\* value << shift raises TypeError when value is None
SetFieldStep(m, reg, mask, shift, value) ==
    IF Raised(m) THEN m
    ELSE IF value = NONE
    THEN Raise(m, "unsupported operand type(s) for <<: 'NoneType' and 'int'")
    ELSE [m EXCEPT !.reg_image[reg] = set_field(@, mask, shift, value)]

\* LMX2820.rf_enable
RfEnable(m, enable) ==
    LET m1 == SetFieldStep(m, R_RFOUTA_EN, RFOUTA_EN_MASK, RFOUTA_EN_SHIFT, B2N(enable))
        m2 == SpiWrite(m1, R_RFOUTA_EN, m1.reg_image[R_RFOUTA_EN])
    IN GpioRfEnable(m2, enable)

\* LMX2820.power_on
DevPowerOn(m) == GpioResetPulse(GpioPowerEnable(m, TRUE))

\* mutant of power_off: the power-enable line is dropped before RF is turned off
DevPowerOff_PowerFirst(m) == RfEnable(GpioPowerEnable(m, FALSE), FALSE)

\* LMX2820.power_off
DevPowerOff(m) == GpioPowerEnable(RfEnable(m, FALSE), FALSE)

\* the value MockSPI.write accepts for a register
SpiWriteOk(reg, value) ==
    0 <= reg /\ reg <= SPI_MAX_REG /\ 0 <= value /\ value <= SPI_MAX_VALUE

SeqMin(S) == CHOOSE x \in S : \A y \in S : x <= y

\* LMX2820._write_reg_list / the loop of _write_static_registers:
\* for reg in reg_list: self.spi.write(reg, self.reg_image[reg]).
\* The writes before the first one MockSPI rejects are made, that one raises.
WriteRegList(m, reg_list) ==
    IF Raised(m) THEN m
    ELSE LET bad == {i \in 1 .. Len(reg_list) :
                        ~SpiWriteOk(reg_list[i], m.reg_image[reg_list[i]])}
             n == IF bad = {} THEN Len(reg_list) ELSE SeqMin(bad) - 1
             done == [m EXCEPT !.trace =
                         @ \o [i \in 1 .. n |-> SpiEv(reg_list[i], m.reg_image[reg_list[i]])]]
         IN IF bad = {} THEN done
            ELSE SpiWrite(done, reg_list[n + 1], m.reg_image[reg_list[n + 1]])

\* enumerate(self.reg_image)
AllRegs == [i \in 1 .. LMX2820_NUM_REGS |-> i - 1]

\* LMX2820._write_static_registers
WriteStaticRegisters(m) == WriteRegList(m, AllRegs)

\* LMX2820.initialize_registers; img is what the default register file holds
InitializeRegisters(m, img) ==
    IF Raised(m) THEN m
    ELSE WriteStaticRegisters([m EXCEPT !.reg_image = img])

\* ---------------------------------------------------------------- lock detection
\* a lock-detect behaviour: the samples the input gives, the last one repeating
LdBehaviours == UNION {[1 .. n -> BOOLEAN] : n \in 1 .. MaxLdLen}

LdSample(ld, i) == ld[IF i <= Len(ld) THEN i ELSE Len(ld)]

\* timeout_ms of the call in _write_frequency_sequence
LOCK_TIMEOUT_MS == 50

\* LMX2820.is_locked -> MockGPIO/RealGPIO.read_lock_detect, sample number i
IsLocked(ld, i) == LdSample(ld, i)

\* mutant of wait_for_lock: the loop runs one sample past the timeout
WaitForLock_PastTimeout(m, ld, timeout_ms) ==
    LET hits == {i \in 1 .. timeout_ms + 1 : IsLocked(ld, i)}
        n == IF hits = {} THEN timeout_ms + 1
             ELSE CHOOSE i \in hits : \A k \in hits : i <= k
    IN [m |-> [m EXCEPT !.trace =
                  @ \o [i \in 1 .. n |-> GpioEv("read_lock_detect", B2N(IsLocked(ld, i)))]],
        ret |-> hits # {}]

\* LMX2820.wait_for_lock: for _ in range(timeout_ms): if is_locked(): return True;
\* return False after timeout_ms unlocked samples.  The samples read are 1..n, n the
\* first locked sample, or all timeout_ms of them.
WaitForLock(m, ld, timeout_ms) ==
    LET hits == {i \in 1 .. timeout_ms : IsLocked(ld, i)}
        n == IF hits = {} THEN timeout_ms ELSE SeqMin(hits)
    IN [m |-> [m EXCEPT !.trace =
                  @ \o [i \in 1 .. n |-> GpioEv("read_lock_detect", B2N(IsLocked(ld, i)))]],
        ret |-> hits # {}]

\* ---------------------------------------------------------------- applying a plan
\* mutant of _configure_rf_path: the band-select switch is left alone
ConfigureRfPath_NoSwitch(m, plan) ==
    IF Raised(m) THEN m
    ELSE GpioExternalDoublerEnable(m, plan.external_doubler)

\* LMX2820._configure_rf_path
ConfigureRfPath(m, plan) ==
    IF Raised(m) THEN m
    ELSE IF plan.band = "1_10"
    THEN GpioExternalDoublerEnable(GpioSetSp4t(m, 0), FALSE)
    ELSE IF plan.band = "10_22"
    THEN GpioExternalDoublerEnable(GpioSetSp4t(m, 1), FALSE)
    ELSE IF plan.band = "22_32"
    THEN GpioExternalDoublerEnable(GpioSetSp4t(m, 2), TRUE)
    ELSE IF plan.band = "32_40"
    THEN GpioExternalDoublerEnable(GpioSetSp4t(m, 3), TRUE)
    ELSE Raise(m, "Unknown frequency band")

\* LMX2820._update_registers_from_plan
UpdateRegistersFromPlan(m, plan) ==
    LET m1 == SetFieldStep(m, R_PLL_NUM, PLL_NUM_MASK, PLL_NUM_SHIFT, 0)
        m2 == SetFieldStep(m1, R_PLL_DEN, PLL_DEN_MASK, PLL_DEN_SHIFT, 1)
        m3 == SetFieldStep(m2, R_PLL_N, PLL_N_MASK, PLL_N_SHIFT, plan.N)
        m4 == SetFieldStep(m3, R_CHDIV, CHDIV_MASK, CHDIV_SHIFT, plan.chdiv)
        m5 == SetFieldStep(m4, R_OUTA_MUX, OUTA_MUX_MASK, OUTA_MUX_SHIFT, plan.outa_mux)
    IN SetFieldStep(m5, R_RFOUTA_PWR, RFOUTA_PWR_MASK, RFOUTA_PWR_SHIFT, plan.power)

FREQ_REGS == <<R_PLL_NUM, R_PLL_DEN, R_PLL_N, R_CHDIV, R_OUTA_MUX>>

OUTPUT_REGS == <<R_RFOUTA_PWR, R_RFOUTA_EN>>

\* mutant of _trigger_vco_calibration: the bit is set and written, never cleared
TriggerVcoCalibration_NoClear(m) ==
    LET m1 == SetFieldStep(m, R_VCO_CAL, VCO_CAL_MASK, VCO_CAL_SHIFT, 1)
    IN SpiWrite(m1, R_VCO_CAL, m1.reg_image[R_VCO_CAL])

\* LMX2820._trigger_vco_calibration
TriggerVcoCalibration(m) ==
    LET m1 == SetFieldStep(m, R_VCO_CAL, VCO_CAL_MASK, VCO_CAL_SHIFT, 1)
        m2 == SpiWrite(m1, R_VCO_CAL, m1.reg_image[R_VCO_CAL])
        m3 == SetFieldStep(m2, R_VCO_CAL, VCO_CAL_MASK, VCO_CAL_SHIFT, 0)
    IN SpiWrite(m3, R_VCO_CAL, m3.reg_image[R_VCO_CAL])

\* mutant of _write_frequency_sequence: RF is enabled once calibration is triggered,
\* before lock is verified
WriteFrequencySequence_EnableBeforeLock(m, ld) ==
    LET m1 == RfEnable(m, FALSE)
        m2 == WriteRegList(m1, FREQ_REGS)
        m3 == RfEnable(TriggerVcoCalibration(m2), TRUE)
    IN IF Raised(m3) THEN m3
       ELSE LET w == WaitForLock(m3, ld, LOCK_TIMEOUT_MS) IN
            IF ~w.ret THEN Raise(w.m, "PLL failed to lock")
            ELSE WriteRegList(w.m, OUTPUT_REGS)

\* LMX2820._write_frequency_sequence
WriteFrequencySequence(m, ld) ==
    LET m1 == RfEnable(m, FALSE)
        m2 == WriteRegList(m1, FREQ_REGS)
        m3 == TriggerVcoCalibration(m2)
    IN IF Raised(m3) THEN m3
       ELSE LET w == WaitForLock(m3, ld, LOCK_TIMEOUT_MS) IN
            IF ~w.ret THEN Raise(w.m, "PLL failed to lock")
            ELSE WriteRegList(w.m, OUTPUT_REGS)

\* LMX2820.apply_frequency_plan
ApplyFrequencyPlan(m, plan, ld) ==
    WriteFrequencySequence(UpdateRegistersFromPlan(ConfigureRfPath(m, plan), plan), ld)

\* LMX2820.compute_frequency_plan: the plan is stored only when the planner returns
ComputeFrequencyPlan(m, freq) ==
    LET p == compute_frequency_plan_integer_n(freq) IN
    IF p.ok THEN [m EXCEPT !.current_plan = p.plan] ELSE Raise(m, p.msg)

\* device.log_error: the reason is kept for inspection (the driver class under
\* src/lmx2820.py has no such method; its effect is the one the design states)
LogError(m, reason) ==
    IF Raised(m) THEN m ELSE [m EXCEPT !.last_error = reason]

\* f"Unexpected error: {e}"
Unexpected(msg) == <<"Unexpected error: ", msg>>

NoError == <<>>

\* ---------------------------------------------------------------- inputs
\* requested frequencies (MHz): below range, divider band (chdiv 8, 2, 4), off the
\* 100 MHz grid, direct band of "1_10", direct and doubler band of "10_22",
\* a VCO that is no multiple of the reference, both external-doubler bands, above range
Freqs == {500, 1000, 1050, 3000, 6000, 11000, 20000, 22700, 24000, 36000, 40100}

\* contents of the default register file: every register a 16-bit value
ImageZero == [i \in Regs |-> 0]
ImageOnes == [i \in Regs |-> SPI_MAX_VALUE]
DefaultImages == {ImageZero, ImageOnes}

\* ---------------------------------------------------------------- state
VARIABLES
    state,             \* RFFSM.state
    current_freq_hz,   \* RFFSM.current_freq_hz
    reg_image,         \* LMX2820.reg_image, the shadow register image
    current_plan,      \* LMX2820.current_plan
    powered,           \* MockGPIO.powered
    rf_enabled,        \* MockGPIO.rf_enabled, the RF enable line
    sp4t_pos,          \* MockGPIO.sp4t_pos
    external_doubler,  \* MockGPIO.external_doubler
    last_error,        \* the reason handed to device.log_error
    hw_trace,          \* the SPI writes and GPIO calls of the latest controller call
    last_call,         \* the latest controller call: arguments, state before, outcome
    plan_result,       \* the latest direct call of the planner: argument and outcome
    hw_regs,           \* the chip's registers: the last value written to each over SPI
    field_result,      \* the latest direct call of set_field: arguments and result
    diff_result        \* the latest call of diff_register_images: arguments and result

vars == <<state, current_freq_hz, reg_image, current_plan, powered, rf_enabled,
          sp4t_pos, external_doubler, last_error, hw_trace, last_call, plan_result,
          hw_regs, field_result, diff_result>>

\* the objects as a controller call finds them
Ctx ==
    [reg_image |-> reg_image, current_plan |-> current_plan, powered |-> powered,
     rf_enabled |-> rf_enabled, sp4t_pos |-> sp4t_pos,
     external_doubler |-> external_doubler, last_error |-> last_error,
     trace |-> <<>>, exc |-> NoExc]

\* the RF enable field of the shadow image, as rf_enable encodes it (1 = enabled)
RfField(img) == get_field(img[R_RFOUTA_EN], RFOUTA_EN_MASK, RFOUTA_EN_SHIFT)

\* what is known of apply_frequency_plan at its exit; NoApply when it was not called
NoApply == [called |-> FALSE, msg |-> NoExc, rf_line |-> FALSE, rf_field |-> 0, events |-> 0]

ApplyExit(m) ==
    [called |-> TRUE, msg |-> m.exc, rf_line |-> m.rf_enabled,
     rf_field |-> RfField(m.reg_image), events |-> Len(m.trace)]

\* the result of a controller method: objects, state, frequency, exception raised to
\* the caller (NoExc when it returns), planner message, apply_frequency_plan exit
Result(m, st, freq, raised, plan_msg, apply) ==
    [m |-> m, state |-> st, freq |-> freq, raised |-> raised,
     plan_msg |-> plan_msg, apply |-> apply]

\* a method whose assignments to state and current_freq_hz follow its device calls
Finish(m, st_old, freq_old, st_new, freq_new) ==
    IF Raised(m) THEN Result(m, st_old, freq_old, m.exc, NoExc, NoApply)
    ELSE Result(m, st_new, freq_new, NoExc, NoExc, NoApply)

\* ---------------------------------------------------------------- RFFSM
\* mutant of power_on: RF is not disabled after the registers are initialized
FsmPowerOn_NoRfDisable(st, freq, m, img) ==
    IF st # POWER_OFF THEN Result(m, st, freq, NoExc, NoExc, NoApply)
    ELSE Finish(InitializeRegisters(DevPowerOn(m), img), st, freq, STANDBY, freq)

\* RFFSM.power_on
FsmPowerOn(st, freq, m, img) ==
    IF st # POWER_OFF THEN Result(m, st, freq, NoExc, NoExc, NoApply)
    ELSE Finish(RfEnable(InitializeRegisters(DevPowerOn(m), img), FALSE),
                st, freq, STANDBY, freq)

\* RFFSM.power_off
FsmPowerOff(st, freq, m) == Finish(DevPowerOff(m), st, freq, POWER_OFF, NONE)

\* RFFSM.reset
FsmReset(st, freq, m, img) ==
    Finish(RfEnable(InitializeRegisters(DevPowerOn(DevPowerOff(m)), img), FALSE),
           st, freq, STANDBY, NONE)

\* mutant of _enter_error_state: the state is left as it was
EnterErrorState_KeepsState(m, st, freq, reason, plan_msg, apply) ==
    LET m1 == LogError(RfEnable([m EXCEPT !.exc = NoExc], FALSE), reason) IN
    IF Raised(m1) THEN Result(m1, st, freq, m1.exc, plan_msg, apply)
    ELSE Result(m1, st, freq, NoExc, plan_msg, apply)

\* RFFSM._enter_error_state, entered from an except clause: the exception in flight
\* is handled, one raised by the handler itself goes to the caller
EnterErrorState(m, st, freq, reason, plan_msg, apply) ==
    LET m1 == LogError(RfEnable([m EXCEPT !.exc = NoExc], FALSE), reason) IN
    IF Raised(m1) THEN Result(m1, st, freq, m1.exc, plan_msg, apply)
    ELSE Result(m1, ERROR, freq, NoExc, plan_msg, apply)

\* mutant of set_frequency: only ERROR is rejected, POWER_OFF is let through
FsmSetFrequency_PowerOffAccepted(st, freq, m, freq_hz, ld) ==
    IF st = ERROR
    THEN Result(m, st, freq, "Device in ERROR state. Reset required.", NoExc, NoApply)
    ELSE LET m1 == ComputeFrequencyPlan(m, freq_hz) IN
         IF Raised(m1)
         THEN EnterErrorState(m1, st, freq, Unexpected(m1.exc), m1.exc, NoApply)
         ELSE LET m2 == ApplyFrequencyPlan(m1, m1.current_plan, ld) IN
              IF Raised(m2)
              THEN EnterErrorState(m2, st, freq, Unexpected(m2.exc), NoExc, ApplyExit(m2))
              ELSE Result(m2, READY, freq_hz, NoExc, NoExc, ApplyExit(m2))

\* RFFSM.set_frequency
FsmSetFrequency(st, freq, m, freq_hz, ld) ==
    IF st = ERROR
    THEN Result(m, st, freq, "Device in ERROR state. Reset required.", NoExc, NoApply)
    ELSE IF st \notin {STANDBY, READY}
    THEN Result(m, st, freq, "Cannot set frequency in state", NoExc, NoApply)
    ELSE LET m1 == ComputeFrequencyPlan(m, freq_hz) IN
         IF Raised(m1)
         THEN EnterErrorState(m1, st, freq, Unexpected(m1.exc), m1.exc, NoApply)
         ELSE LET m2 == ApplyFrequencyPlan(m1, m1.current_plan, ld) IN
              IF Raised(m2)
              THEN EnterErrorState(m2, st, freq, Unexpected(m2.exc), NoExc, ApplyExit(m2))
              ELSE Result(m2, READY, freq_hz, NoExc, NoExc, ApplyExit(m2))

\* mutant of disable_rf: the current frequency is cleared
FsmDisableRf_ClearsFreq(st, freq, m) ==
    IF st = READY THEN Finish(RfEnable(m, FALSE), st, freq, STANDBY, NONE)
    ELSE Result(m, st, freq, NoExc, NoExc, NoApply)

\* RFFSM.disable_rf
FsmDisableRf(st, freq, m) ==
    IF st = READY THEN Finish(RfEnable(m, FALSE), st, freq, STANDBY, freq)
    ELSE Result(m, st, freq, NoExc, NoExc, NoApply)

\* RFFSM.is_rf_active
is_rf_active == state = READY

\* ---------------------------------------------------------------- actions
\* the chip's registers after the SPI writes of trace tr: the last write to a
\* register is the value it holds, a register not written keeps its value
HwAfter(regs, tr) ==
    LET writes == {i \in 1 .. Len(tr) : tr[i].k = "spi.write"}
        written == {tr[i].a : i \in writes}
    IN [r \in Regs |->
          IF r \notin written THEN regs[r]
          ELSE LET at == {i \in writes : tr[i].a = r}
               IN tr[CHOOSE i \in at : \A j \in at : j <= i].v]

\* the call returns (or raises): fields take the values the method left; plan is the
\* plan the call worked with.  hw_states is the set of values self.state had at the
\* SPI writes and GPIO calls of the call: every method assigns self.state after its
\* last device call, so that is the state the call started in
CommitCall(op, arg, plan, r) ==
    /\ state' = r.state
    /\ current_freq_hz' = r.freq
    /\ reg_image' = r.m.reg_image
    /\ current_plan' = r.m.current_plan
    /\ powered' = r.m.powered
    /\ rf_enabled' = r.m.rf_enabled
    /\ sp4t_pos' = r.m.sp4t_pos
    /\ external_doubler' = r.m.external_doubler
    /\ last_error' = r.m.last_error
    /\ hw_trace' = r.m.trace
    /\ last_call' = [op |-> op, freq |-> arg, pre_state |-> state,
                     pre_freq |-> current_freq_hz, raised |-> r.raised,
                     plan_msg |-> r.plan_msg, apply |-> r.apply, plan |-> plan,
                     hw_states |-> IF r.m.trace = <<>> THEN {} ELSE {state}]
    /\ hw_regs' = HwAfter(hw_regs, r.m.trace)
    /\ UNCHANGED <<plan_result, field_result, diff_result>>

\* a call of a controller method: the plan is the one the driver holds
Commit(op, arg, r) == CommitCall(op, arg, r.m.current_plan, r)

NoCall ==
    [op |-> "none", freq |-> NONE, pre_state |-> POWER_OFF, pre_freq |-> NONE,
     raised |-> NoExc, plan_msg |-> NoExc, apply |-> NoApply, plan |-> NoPlan,
     hw_states |-> {}]

\* diff_register_images has not been called
NoDiffCall == [old |-> <<>>, new |-> <<>>, called |-> FALSE, exc |-> NoExc, diffs |-> <<>>]

\* set_field has not been called directly
NoFieldCall == [reg_val |-> NONE, mask |-> NONE, shift |-> NONE, value |-> NONE, out |-> NONE]

\* the planner has not been called directly
NoPlanCall ==
    [freq |-> NONE, ok |-> FALSE, exc |-> NoExc, msg |-> NoExc, plan |-> NoPlan,
     vco_hz |-> NONE]

\* RFFSM.__init__, LMX2820.__init__, MockGPIO.__init__
Init ==
    /\ state = POWER_OFF
    /\ current_freq_hz = NONE
    /\ reg_image = [i \in Regs |-> 0]
    /\ current_plan = NoPlan
    /\ powered = FALSE
    /\ rf_enabled = FALSE
    /\ sp4t_pos = NONE
    /\ external_doubler = FALSE
    /\ last_error = NoError
    /\ hw_trace = <<>>
    /\ last_call = NoCall
    /\ plan_result = NoPlanCall
    /\ hw_regs = [r \in Regs |-> NONE]
    /\ field_result = NoFieldCall
    /\ diff_result = NoDiffCall

PowerOn ==
    \E img \in DefaultImages :
        Commit("power_on", NONE, FsmPowerOn(state, current_freq_hz, Ctx, img))

PowerOff == Commit("power_off", NONE, FsmPowerOff(state, current_freq_hz, Ctx))

Reset ==
    \E img \in DefaultImages :
        Commit("reset", NONE, FsmReset(state, current_freq_hz, Ctx, img))

SetFrequency ==
    \E freq_hz \in Freqs, ld \in LdBehaviours :
        Commit("set_frequency", freq_hz,
               FsmSetFrequency(state, current_freq_hz, Ctx, freq_hz, ld))

DisableRf == Commit("disable_rf", NONE, FsmDisableRf(state, current_freq_hz, Ctx))

Next == PowerOn \/ PowerOff \/ Reset \/ SetFrequency \/ DisableRf

Spec == Init /\ [][Next]_vars

\* ---------------------------------------------------------------- the planner alone
\* the planner called as a function: frequencies on a 25 MHz grid from 0 up
MaxFreqIndex == 1680
PlannerFreqs == {25 * i : i \in 0 .. MaxFreqIndex}

\* plan = compute_frequency_plan_integer_n(freq_hz), or the exception it raises
ComputePlan ==
    \E freq_hz \in PlannerFreqs :
        /\ plan_result' =
              LET p == compute_frequency_plan_integer_n(freq_hz) IN
              [freq |-> freq_hz, ok |-> p.ok, exc |-> p.exc, msg |-> p.msg,
               plan |-> p.plan, vco_hz |-> p.vco_hz]
        /\ UNCHANGED <<state, current_freq_hz, reg_image, current_plan, powered,
                       rf_enabled, sp4t_pos, external_doubler, last_error, hw_trace,
                       last_call, hw_regs, field_result, diff_result>>

PlannerNext == ComputePlan

PlannerSpec == Init /\ [][PlannerNext]_vars

\* ---------------------------------------------------------------- set_field alone
\* set_field called as a function: the (mask, shift) pairs of the register map,
\* register values with every bit pattern next to a field, values from 0 up, some
\* of them wider than the field
MaxFieldValue == 9
FieldDescriptors ==
    {<<PLL_NUM_MASK, PLL_NUM_SHIFT>>, <<PLL_DEN_MASK, PLL_DEN_SHIFT>>,
     <<PLL_N_MASK, PLL_N_SHIFT>>, <<CHDIV_MASK, CHDIV_SHIFT>>,
     <<OUTA_MUX_MASK, OUTA_MUX_SHIFT>>, <<RFOUTA_PWR_MASK, RFOUTA_PWR_SHIFT>>,
     <<RFOUTA_EN_MASK, RFOUTA_EN_SHIFT>>, <<VCO_CAL_MASK, VCO_CAL_SHIFT>>}
FieldRegVals == {0, SPI_MAX_VALUE, 42405, 23130}

\* out = set_field(reg_val, mask, shift, value)
SetField ==
    \E reg_val \in FieldRegVals, d \in FieldDescriptors, value \in 0 .. MaxFieldValue :
        /\ field_result' = [reg_val |-> reg_val, mask |-> d[1], shift |-> d[2],
                            value |-> value, out |-> set_field(reg_val, d[1], d[2], value)]
        /\ UNCHANGED <<state, current_freq_hz, reg_image, current_plan, powered,
                       rf_enabled, sp4t_pos, external_doubler, last_error, hw_trace,
                       last_call, plan_result, hw_regs, diff_result>>

FieldNext == SetField

FieldSpec == Init /\ [][FieldNext]_vars

\* ---------------------------------------------------------------- diff_register_images
\* mutant of diff_register_images: the lengths are not compared, zip stops at the
\* shorter image
diff_register_images_NoLengthCheck(old, new) ==
    LET n == IF Len(old) <= Len(new) THEN Len(old) ELSE Len(new)
        all == [i \in 1 .. n |-> <<i - 1, old[i], new[i]>>]
        differs(t) == t[2] # t[3]
    IN [exc |-> NoExc, diffs |-> SelectSeq(all, differs)]

\* utils.diff_register_images: ValueError when the lengths differ, else the tuples
\* (i, a, b) of enumerate(zip(old, new)) with a != b, appended in loop order
diff_register_images(old, new) ==
    IF Len(old) # Len(new)
    THEN [exc |-> "Register images must be same length", diffs |-> <<>>]
    ELSE LET all == [i \in 1 .. Len(old) |-> <<i - 1, old[i], new[i]>>]
             differs(t) == t[2] # t[3]
         IN [exc |-> NoExc, diffs |-> SelectSeq(all, differs)]

\* register images handed to the diff: lists of up to MaxImageLen values 0..MaxImageValue
MaxImageLen == 3
MaxImageValue == 1
DiffImages == UNION {[1 .. n -> 0 .. MaxImageValue] : n \in 0 .. MaxImageLen}

\* the images of the call are chosen at the start
DiffInit ==
    /\ state = POWER_OFF
    /\ current_freq_hz = NONE
    /\ reg_image = [i \in Regs |-> 0]
    /\ current_plan = NoPlan
    /\ powered = FALSE
    /\ rf_enabled = FALSE
    /\ sp4t_pos = NONE
    /\ external_doubler = FALSE
    /\ last_error = NoError
    /\ hw_trace = <<>>
    /\ last_call = NoCall
    /\ plan_result = NoPlanCall
    /\ hw_regs = [r \in Regs |-> NONE]
    /\ field_result = NoFieldCall
    /\ \E old \in DiffImages, new \in DiffImages :
          diff_result = [NoDiffCall EXCEPT !.old = old, !.new = new]

\* diffs = diff_register_images(old, new), or the exception it raises
DiffRegisterImages ==
    /\ diff_result' =
          LET d == diff_register_images(diff_result.old, diff_result.new) IN
          [old |-> diff_result.old, new |-> diff_result.new, called |-> TRUE,
           exc |-> d.exc, diffs |-> d.diffs]
    /\ UNCHANGED <<state, current_freq_hz, reg_image, current_plan, powered,
                   rf_enabled, sp4t_pos, external_doubler, last_error, hw_trace,
                   last_call, plan_result, hw_regs, field_result>>

DiffNext == DiffRegisterImages

DiffSpec == DiffInit /\ [][DiffNext]_vars

\* ---------------------------------------------------------------- the driver alone
\* plans handed to apply_frequency_plan directly: the planner's plans for the
\* requested frequencies, the same plans under the driver's tags of the two upper
\* bands, and each of them with the external doubler flag inverted
PlannerPlans == {compute_frequency_plan_integer_n(f).plan :
                    f \in {g \in Freqs : compute_frequency_plan_integer_n(g).ok}}
DriverTag(band) ==
    IF band = "22_30" THEN "22_32" ELSE IF band = "30_40" THEN "32_40" ELSE band
TaggedPlans == PlannerPlans \cup {[p EXCEPT !.band = DriverTag(@)] : p \in PlannerPlans}
ApplyPlans ==
    TaggedPlans \cup {[p EXCEPT !.external_doubler = ~@] : p \in TaggedPlans}

\* device.apply_frequency_plan(plan), called on the driver: the controller's state
\* and frequency are not involved
ApplyPlan ==
    \E plan \in ApplyPlans, ld \in LdBehaviours :
        LET m == ApplyFrequencyPlan(Ctx, plan, ld) IN
        CommitCall("apply_frequency_plan", NONE, plan,
                   Result(m, state, current_freq_hz, m.exc, NoExc, ApplyExit(m)))

DriverNext == PowerOn \/ ApplyPlan

DriverSpec == Init /\ [][DriverNext]_vars

\* ---------------------------------------------------------------- observations
\* RF output as the controller drives it: the RF enable line and the enable field
RfLineOn == rf_enabled
RfFieldOn == RfField(reg_image) = 1
RfDisabled == ~RfLineOn /\ ~RfFieldOn

\* a hardware call that asserts RF output
AssertsRf(e) ==
    \/ e.k = "rf_enable" /\ e.v = 1
    \/ e.k = "spi.write" /\ e.a = R_RFOUTA_EN
         /\ get_field(e.v, RFOUTA_EN_MASK, RFOUTA_EN_SHIFT) = 1

\* a hardware call that turns RF output off
DeassertsRfField(e) ==
    e.k = "spi.write" /\ e.a = R_RFOUTA_EN
      /\ get_field(e.v, RFOUTA_EN_MASK, RFOUTA_EN_SHIFT) = 0

IsLockedRead(e) == e.k = "read_lock_detect" /\ e.v = 1

\* before call number i of the trace, lock was read and the output-power register
\* was written after that read
Step7Before(tr, i) ==
    \E j \in 1 .. (i - 1) :
        /\ IsLockedRead(tr[j])
        /\ \E p \in (j + 1) .. (i - 1) : tr[p].k = "spi.write" /\ tr[p].a = R_RFOUTA_PWR

\* lock was read before call number i of the trace
LockBefore(tr, i) == \E j \in 1 .. (i - 1) : IsLockedRead(tr[j])

SetFrequencyFailed ==
    /\ last_call.op = "set_frequency"
    /\ last_call.pre_state \in {STANDBY, READY}
    /\ (last_call.plan_msg # NoExc \/ last_call.apply.msg # NoExc)

\* the two hardware calls of rf_enable(False), given the register value before
RfOffValue(v) == v - BitAnd(v, RFOUTA_EN_MASK)
RfOffEvents(v) == <<SpiEv(R_RFOUTA_EN, RfOffValue(v)), GpioEv("rf_enable", 0)>>

\* hw_trace ends with the two hardware calls of rf_enable(False)
EndsWithRfOff(tr) ==
    /\ Len(tr) >= 2
    /\ DeassertsRfField(tr[Len(tr) - 1])
    /\ tr[Len(tr)] = GpioEv("rf_enable", 0)

C2_RfIffReady ==
    /\ is_rf_active <=> RfLineOn
    /\ state \in {POWER_OFF, STANDBY, ERROR} => ~RfLineOn

\* C3: a step taken in ERROR by any call other than reset leaves the state ERROR.
C3_ErrorLeftOnlyByReset ==
    [][(state = ERROR /\ last_call'.op # "reset") => state' = ERROR]_vars

\* C4: set_frequency called in ERROR or POWER_OFF raises to its caller and changes
\* nothing: state, frequency, plan, register image, GPIO lines, recorded error, and
\* it makes no SPI write and no GPIO call.
C4_RejectedSetFrequencyNoEffect ==
    [][(last_call'.op = "set_frequency" /\ state \in {ERROR, POWER_OFF}) =>
          /\ last_call'.raised # NoExc
          /\ hw_trace' = <<>>
          /\ UNCHANGED <<state, current_freq_hz, reg_image, current_plan, powered,
                         rf_enabled, sp4t_pos, external_doubler, last_error>>]_vars

\* C4 witness: a set_frequency call was made in ERROR and was rejected
C4_Witness ==
    /\ last_call.op = "set_frequency"
    /\ last_call.pre_state = ERROR
    /\ last_call.raised # NoExc
    /\ state = ERROR

C6_PlannerRejectTouchesNothing ==
    (last_call.op = "set_frequency" /\ last_call.plan_msg # NoExc) =>
        (last_call.raised # NoExc /\ hw_trace = <<>>)

\* the static image write: register i written with img[i], ascending
StaticWrites(img) == [i \in 1 .. LMX2820_NUM_REGS |-> SpiEv(i - 1, img[i - 1])]

\* the shadow image after loading img and rf_enable(False)
ImageRfOff(img) == [img EXCEPT ![R_RFOUTA_EN] = RfOffValue(img[R_RFOUTA_EN])]

\* C7: reset called in ERROR ends in STANDBY with RF disabled, the current frequency
\* and the recorded error cleared; power is disabled before it is re-enabled, then
\* the default image is reloaded and rewritten.
C7_ResetFromError ==
    (last_call.op = "reset" /\ last_call.pre_state = ERROR) =>
        /\ state = STANDBY
        /\ RfDisabled
        /\ current_freq_hz = NONE
        /\ last_error = NoError
        /\ \E img \in DefaultImages :
              /\ reg_image = ImageRfOff(img)
              /\ Len(hw_trace) = LMX2820_NUM_REGS + 7
              /\ DeassertsRfField(hw_trace[1])
              /\ SubSeq(hw_trace, 2, 5) =
                    <<GpioEv("rf_enable", 0), GpioEv("power_enable", 0),
                      GpioEv("power_enable", 1), GpioEv("reset_pulse", 0)>>
              /\ SubSeq(hw_trace, 6, Len(hw_trace)) =
                    StaticWrites(img) \o RfOffEvents(img[R_RFOUTA_EN])

LegalStates(op) ==
    IF op = "power_on" THEN {POWER_OFF}
    ELSE IF op = "set_frequency" THEN {STANDBY, READY}
    ELSE IF op = "disable_rf" THEN {READY}
    ELSE IF op = "reset" THEN {ERROR}
    ELSE RFState

\* C11: a call of power_on, set_frequency, disable_rf or reset made in a state
\* outside the operation's legal-state set leaves the state as it is and makes no
\* SPI write and no GPIO call.
C11_IllegalCallsTouchNothing ==
    [][(/\ last_call'.op \in {"power_on", "set_frequency", "disable_rf", "reset"}
        /\ state \notin LegalStates(last_call'.op)) =>
          (hw_trace' = <<>> /\ state' = state)]_vars

\* the calibration triggers of a trace: writes of the calibration register with the
\* calibration bit set
CalTriggers(tr) ==
    {i \in 1 .. Len(tr) :
        /\ tr[i].k = "spi.write" /\ tr[i].a = R_VCO_CAL
        /\ get_field(tr[i].v, VCO_CAL_MASK, VCO_CAL_SHIFT) = 1}

LockReads(tr) == {i \in 1 .. Len(tr) : tr[i].k = "read_lock_detect"}

\* the latest call was a set_frequency whose lock-detect reads were all unlocked
LockNeverSeen ==
    /\ last_call.op = "set_frequency"
    /\ last_call.apply.called
    /\ LockReads(hw_trace) # {}
    /\ \A i \in LockReads(hw_trace) : hw_trace[i].v = 0

\* C12: when lock-detect never reads locked, calibration is triggered exactly the
\* retry budget's number of times (3), the call fails with the PLL lock error (the
\* reason recorded is that error's own text, not an unexpected error) and no
\* hardware call of the whole call asserts RF.
C12_RetryBudget ==
    LockNeverSeen =>
        /\ Cardinality(CalTriggers(hw_trace)) = 3
        /\ state = ERROR
        /\ last_error = <<"PLL failed to lock">>
        /\ \A i \in 1 .. Len(hw_trace) : ~AssertsRf(hw_trace[i])
        /\ RfDisabled

\* C13: lock is declared (the output registers are written) only right after the
\* third of three consecutive locked reads of lock-detect.
C13_LockDebounced ==
    (last_call.op = "set_frequency" /\ last_call.apply.called
        /\ last_call.apply.msg = NoExc) =>
        \E i \in 3 .. Len(hw_trace) - 1 :
            /\ IsLockedRead(hw_trace[i - 2])
            /\ IsLockedRead(hw_trace[i - 1])
            /\ IsLockedRead(hw_trace[i])
            /\ hw_trace[i + 1] = SpiEv(R_RFOUTA_PWR, reg_image[R_RFOUTA_PWR])

\* C14: applying the plan of the frequency already applied (lock achieved both
\* times) leaves the register image exactly as the first application left it.
C14_ApplyIdempotent ==
    [][(/\ state = READY
        /\ last_call'.op = "set_frequency"
        /\ last_call'.freq = current_freq_hz
        /\ state' = READY) => reg_image' = reg_image]_vars

\* C14 witness: the frequency applied in the call before was applied again, with
\* lock, on an image that started as the all-ones default
C14_Witness ==
    /\ last_call.op = "set_frequency"
    /\ last_call.pre_state = READY
    /\ last_call.pre_freq = last_call.freq
    /\ state = READY
    /\ reg_image[1] = SPI_MAX_VALUE

\* ---------------------------------------------------------------- planner claims
PlannerCalled == plan_result.freq # NONE

\* C15: a frequency below 1 GHz or above 40 GHz gives no plan: the planner raises
\* the invalid-frequency error.
C15_OutOfRangeRejected ==
    (PlannerCalled /\ (plan_result.freq < 1000 \/ plan_result.freq > 40000)) =>
        /\ ~plan_result.ok
        /\ plan_result.plan = NoPlan
        /\ plan_result.exc = "ValueError"
        /\ plan_result.msg = "Frequency must be between 1 and 40 GHz"

\* C15 witness: the planner was called with 40.025 GHz and raised
C15_Witness == plan_result.freq = 40025 /\ ~plan_result.ok

\* C16: a frequency inside 1..40 GHz that is not a multiple of 100 MHz gives no plan:
\* the planner raises the unaligned-step error.
C16_UnalignedRejected ==
    (/\ PlannerCalled
     /\ 1000 <= plan_result.freq /\ plan_result.freq <= 40000
     /\ plan_result.freq % 100 # 0) =>
        /\ ~plan_result.ok
        /\ plan_result.plan = NoPlan
        /\ plan_result.exc = "ValueError"
        /\ plan_result.msg = "Frequency must be in 100 MHz steps"

\* C16 witness: the planner was called with 1.05 GHz and raised
C16_Witness == plan_result.freq = 1050 /\ ~plan_result.ok

\* C17: the plan of 1 GHz is on the divider path with channel divider 8, VCO 8 GHz
\* and N = 80.
C17_Plan1GHz ==
    plan_result.freq = 1000 =>
        /\ plan_result.ok
        /\ plan_result.plan.outa_mux = 0
        /\ plan_result.plan.chdiv = 8
        /\ plan_result.vco_hz = 8000
        /\ plan_result.plan.N = 80

\* C18: the plan of 11 GHz is on the direct VCO path with VCO 11 GHz and N = 110.
C18_Plan11GHz ==
    plan_result.freq = 11000 =>
        /\ plan_result.ok
        /\ plan_result.plan.outa_mux = 1
        /\ plan_result.vco_hz = 11000
        /\ plan_result.plan.N = 110

\* C19: the plan of 24 GHz is in the highest band (internal and external doubler)
\* with VCO 6 GHz (freq/4), N = 60 and the external doubler flag set.
C19_Plan24GHz ==
    plan_result.freq = 24000 =>
        /\ plan_result.ok
        /\ plan_result.plan.outa_mux = 2
        /\ plan_result.vco_hz = 6000
        /\ plan_result.plan.N = 60
        /\ plan_result.plan.external_doubler

\* the allowed ratios that put freq * r inside the VCO range
QualifyingRatios(freq) ==
    {CHDIV_CANDIDATES[j] : j \in {k \in 1 .. Len(CHDIV_CANDIDATES) :
        5650 <= freq * CHDIV_CANDIDATES[k] /\ freq * CHDIV_CANDIDATES[k] <= 11300}}

Smallest(S) == CHOOSE r \in S : \A q \in S : r <= q

\* C20: in the divider-path band (up to 5.65 GHz) the ratio selected is the smallest
\* allowed ratio r with VCO_MIN <= freq * r <= VCO_MAX and the VCO is freq * r; with
\* no such ratio the band selection fails with the no-valid-divider error.  The first
\* conjunct is about the plans the planner returns, the second about the ratio loop
\* at every grid frequency of the band, those below 1 GHz included.
C20_FirstQualifyingRatio ==
    /\ (plan_result.ok /\ plan_result.freq <= 5650) =>
          /\ QualifyingRatios(plan_result.freq) # {}
          /\ plan_result.plan.chdiv = Smallest(QualifyingRatios(plan_result.freq))
          /\ plan_result.vco_hz = plan_result.freq * plan_result.plan.chdiv
    /\ \A f \in {g \in PlannerFreqs : g <= 5650} :
          IF QualifyingRatios(f) = {}
          THEN BandSelect(f).fail = "No valid CHDIV for frequency"
          ELSE /\ BandSelect(f).fail = NoExc
               /\ BandSelect(f).chdiv = Smallest(QualifyingRatios(f))

\* C20 witness: a plan was returned for 1.4 GHz, where ratios 2 and 4 fall short of
\* the VCO range and 8 is the first inside it
C20_Witness ==
    /\ plan_result.freq = 1400 /\ plan_result.ok
    /\ plan_result.plan.chdiv = 8
    /\ QualifyingRatios(25) = {}

\* C21: every plan returned has N * reference (50 MHz in the planner) equal to the
\* VCO frequency, with 12 <= N <= 32767; a request whose band gives a VCO frequency
\* that is no exact multiple of the reference, or an N outside that range, gets no
\* plan but the planner's error.
C21_ExactIntegerN ==
    /\ plan_result.ok =>
          /\ plan_result.plan.N * 50 = plan_result.vco_hz
          /\ 12 <= plan_result.plan.N /\ plan_result.plan.N <= 32767
    /\ (/\ PlannerCalled
        /\ 1000 <= plan_result.freq /\ plan_result.freq <= 40000
        /\ plan_result.freq % 100 = 0
        /\ BandSelect(plan_result.freq).fail = NoExc) =>
          LET vco == BandSelect(plan_result.freq).vco IN
          /\ vco % 50 # 0 =>
                /\ ~plan_result.ok /\ plan_result.plan = NoPlan
                /\ plan_result.exc = "FrequencyPlanError"
          /\ (vco % 50 = 0 /\ (vco \div 50 < 12 \/ vco \div 50 > 32767)) =>
                /\ ~plan_result.ok /\ plan_result.plan = NoPlan
                /\ plan_result.exc = "FrequencyPlanError"

\* C21 witness: 22.7 GHz asks for a VCO of 5.675 GHz, no multiple of 50 MHz, and
\* the planner raised
C21_Witness ==
    /\ plan_result.freq = 22700
    /\ BandSelect(22700).vco = 5675
    /\ ~plan_result.ok
    /\ plan_result.msg = "VCO frequency is not an integer multiple of reference"

\* C22: every plan returned uses a VCO frequency inside [5.65 GHz, 11.3 GHz] that
\* reproduces the target exactly: VCO / chdiv on the divider path (mux 0), VCO on the
\* direct path (mux 1), 2 * VCO on the doubler path (mux 2), 4 * VCO with the
\* external doubler.
C22_VcoInWindowAndExact ==
    plan_result.ok =>
        LET f == plan_result.freq
            v == plan_result.vco_hz
            p == plan_result.plan
        IN /\ 5650 <= v /\ v <= 11300
           /\ p.outa_mux \in {0, 1, 2}
           /\ p.outa_mux = 0 =>
                 /\ p.chdiv # NONE /\ ~p.external_doubler
                 /\ f * p.chdiv = v
           /\ p.outa_mux = 1 => (~p.external_doubler /\ f = v)
           /\ (p.outa_mux = 2 /\ ~p.external_doubler) => f = 2 * v
           /\ p.external_doubler => (p.outa_mux = 2 /\ f = 4 * v)

\* C22 witness: a plan with the external doubler was returned (40 GHz, VCO 10 GHz)
C22_Witness ==
    /\ plan_result.ok /\ plan_result.freq = 40000
    /\ plan_result.plan.external_doubler
    /\ plan_result.vco_hz = 10000

\* ---------------------------------------------------------------- driver claims
\* the bands that use the external doubler, under the planner's and the driver's tags
HighBands == {"22_30", "30_40", "22_32", "32_40"}

InconsistentPlan(plan) == plan.external_doubler # (plan.band \in HighBands)

\* C23: apply_frequency_plan of a plan whose external doubler flag disagrees with its
\* band raises at once: no GPIO call and no register write is made.
C23_InconsistentPlanRejected ==
    (last_call.op = "apply_frequency_plan" /\ InconsistentPlan(last_call.plan)) =>
        /\ last_call.raised # NoExc
        /\ hw_trace = <<>>

\* C24: each entry of the shadow register image is the last value written to that
\* register of the chip.
C24_ShadowIsLastWritten ==
    \A r \in Regs : hw_regs[r] # NONE => reg_image[r] = hw_regs[r]

\* bit b of x
Bit(x, b) == (x \div (2 ^ b)) % 2

\* C25: the result of set_field has, at every bit outside the mask, the bit of
\* reg_val, and at every bit inside the mask, the bit of value shifted left by shift;
\* it has no bit beyond the 16 of a register.
C25_SetFieldFrame ==
    field_result.out # NONE =>
        /\ 0 <= field_result.out /\ field_result.out <= 65535
        /\ \A b \in 0 .. 15 :
              Bit(field_result.out, b) =
                 IF Bit(field_result.mask, b) = 1
                 THEN Bit(field_result.value * (2 ^ field_result.shift), b)
                 ELSE Bit(field_result.reg_val, b)

\* C25 witness: a value wider than the channel divider field was put into a register
\* holding a mixed bit pattern, and the register changed
C25_Witness ==
    /\ field_result.reg_val = 42405
    /\ field_result.mask = CHDIV_MASK
    /\ field_result.value = 9
    /\ field_result.out # field_result.reg_val

\* the hardware call that opens _write_frequency_sequence: the first deassertion of
\* the RF enable line in the trace (0 when there is none)
FirstRfOff(tr) ==
    LET offs == {i \in 1 .. Len(tr) : tr[i] = GpioEv("rf_enable", 0)}
    IN IF offs = {} THEN 0 ELSE CHOOSE i \in offs : \A j \in offs : i <= j

\* the first write of register reg after position from (0 when there is none)
WritePos(tr, reg, from) ==
    LET ws == {i \in from + 1 .. Len(tr) : tr[i].k = "spi.write" /\ tr[i].a = reg}
    IN IF ws = {} THEN 0 ELSE CHOOSE i \in ws : \A j \in ws : i <= j

\* the latest call was a set_frequency that came to write the frequency registers
FreqRegsWritten ==
    /\ last_call.op = "set_frequency"
    /\ last_call.apply.called
    /\ FirstRfOff(hw_trace) > 0
    /\ WritePos(hw_trace, R_PLL_N, FirstRfOff(hw_trace)) > 0

\* C26: the frequency registers are written in the order integer divider N, then
\* numerator and denominator, then channel divider, then output mux.
C26_FrequencyWriteOrder ==
    FreqRegsWritten =>
        LET from == FirstRfOff(hw_trace)
            n == WritePos(hw_trace, R_PLL_N, from)
            num == WritePos(hw_trace, R_PLL_NUM, from)
            den == WritePos(hw_trace, R_PLL_DEN, from)
            chdiv == WritePos(hw_trace, R_CHDIV, from)
            mux == WritePos(hw_trace, R_OUTA_MUX, from)
        IN /\ n < num /\ n < den
           /\ num < chdiv /\ den < chdiv
           /\ chdiv < mux

\* C27: in a set_frequency that applies a plan, RF is disabled before the band-select
\* switch and the external doubler line are set, and these before the first
\* frequency register is written.
C27_RfOffBeforePath ==
    (last_call.op = "set_frequency" /\ last_call.apply.called) =>
        \A i \in 1 .. Len(hw_trace) :
            hw_trace[i].k \in {"set_sp4t", "external_doubler_enable"} =>
                /\ \E j \in 1 .. i - 1 : hw_trace[j] = GpioEv("rf_enable", 0)
                /\ \A j \in 1 .. i - 1 :
                      ~(hw_trace[j].k = "spi.write" /\ hw_trace[j].a = R_PLL_N)

\* the latest call was a set_frequency that returned
SetFrequencySucceeded ==
    /\ last_call.op = "set_frequency"
    /\ last_call.apply.called
    /\ last_call.apply.msg = NoExc
    /\ last_call.raised = NoExc

\* the switch position of each band of the planner
BandPosition(band) ==
    IF band = "1_10" THEN 0
    ELSE IF band = "10_22" THEN 1
    ELSE IF band = "22_30" THEN 2
    ELSE IF band = "30_40" THEN 3
    ELSE NONE

\* C28: after a set_frequency that returned, the plan applied is the planner's plan of
\* the frequency, the external doubler line equals the plan's flag and the
\* band-select switch is at the position of the plan's band.
C28_PathFollowsPlan ==
    SetFrequencySucceeded =>
        /\ last_call.plan = compute_frequency_plan_integer_n(last_call.freq).plan
        /\ external_doubler = last_call.plan.external_doubler
        /\ sp4t_pos = BandPosition(last_call.plan.band)
        /\ sp4t_pos \in 0 .. 3

\* C28 witness: set_frequency(3 GHz) returned with the switch at position 0
C28_Witness ==
    /\ SetFrequencySucceeded
    /\ last_call.freq = 3000
    /\ sp4t_pos = 0 /\ ~external_doubler

\* a register value with the calibration bit cleared
CalBitCleared(v) == v - VCO_CAL_MASK * ((v \div VCO_CAL_MASK) % 2)

\* C29: in every set_frequency that applies a plan, calibration is triggered only
\* right after the five frequency registers were written and before every
\* lock-detect read; the trigger is two writes of the calibration register, the
\* first with the bit set, the second with it cleared, both with the other bits as
\* the register had them before the call, and the shadow ends with the bit cleared.
C29_CalibrationPulse ==
    [][(last_call'.op = "set_frequency" /\ last_call'.apply.called) =>
        LET tr == hw_trace'
            cal == {i \in 1 .. Len(tr) : tr[i].k = "spi.write" /\ tr[i].a = R_VCO_CAL}
        IN \/ cal = {} /\ LockReads(tr) = {}
           \/ \E i \in 6 .. Len(tr) - 1 :
                 /\ cal = {i, i + 1}
                 /\ tr[i].v = CalBitCleared(reg_image[R_VCO_CAL]) + VCO_CAL_MASK
                 /\ tr[i + 1].v = CalBitCleared(reg_image[R_VCO_CAL])
                 /\ reg_image'[R_VCO_CAL] = tr[i + 1].v
                 /\ \A k \in 1 .. 5 :
                       tr[i - 6 + k] = SpiEv(FREQ_REGS[k], reg_image'[FREQ_REGS[k]])
                 /\ \A j \in LockReads(tr) : j > i + 1]_vars

\* C29 witness: a set_frequency pulsed the calibration bit of a register whose
\* default value had the bit set, and read lock-detect afterwards
C29_Witness ==
    /\ last_call.op = "set_frequency"
    /\ CalTriggers(hw_trace) # {}
    /\ LockReads(hw_trace) # {}
    /\ reg_image[R_VCO_CAL] = SPI_MAX_VALUE - VCO_CAL_MASK

SetFrequencyAccepted ==
    last_call.op = "set_frequency" /\ last_call.pre_state \in {STANDBY, READY}

\* C31: a set_frequency made in STANDBY or READY returns in READY or ERROR; it reads
\* lock-detect at most 50 times, and when no read is locked it has read exactly 50
\* times, given up with the lock failure and ended in ERROR.
C31_BoundedLockPolling ==
    SetFrequencyAccepted =>
        /\ state \in {READY, ERROR}
        /\ Cardinality(LockReads(hw_trace)) <= 50
        /\ LockNeverSeen =>
              /\ Cardinality(LockReads(hw_trace)) = 50
              /\ last_call.apply.msg = "PLL failed to lock"
              /\ state = ERROR

\* C31 witness: a set_frequency polled an input that never locked, to the timeout
C31_Witness ==
    /\ SetFrequencyAccepted
    /\ LockNeverSeen
    /\ Cardinality(LockReads(hw_trace)) = 50
    /\ state = ERROR

\* C32: at every SPI write and GPIO call made during a set_frequency the controller
\* state is neither STANDBY nor READY.
C32_ConfiguringInFlight ==
    last_call.op = "set_frequency" =>
        \A s \in last_call.hw_states : s \notin {STANDBY, READY}

\* C33: diff_register_images raises when the lengths differ; otherwise its result
\* lists, in ascending index order and once each, exactly the indices where the
\* images differ, each as (i, old[i], new[i]); equal images give the empty list.
C33_DiffExact ==
    diff_result.called =>
        LET old == diff_result.old
            new == diff_result.new
            d == diff_result.diffs
        IN IF Len(old) # Len(new)
           THEN diff_result.exc # NoExc
           ELSE /\ diff_result.exc = NoExc
                /\ \A k \in 1 .. Len(d) :
                      /\ d[k][1] \in 0 .. Len(old) - 1
                      /\ d[k][2] = old[d[k][1] + 1]
                      /\ d[k][3] = new[d[k][1] + 1]
                      /\ d[k][2] # d[k][3]
                /\ \A k \in 1 .. Len(d) - 1 : d[k][1] < d[k + 1][1]
                /\ \A i \in 1 .. Len(old) :
                      old[i] # new[i] => \E k \in 1 .. Len(d) : d[k][1] = i - 1
                /\ old = new => d = <<>>

\* C33 witness: two images of length 3 that differ at the first and the last index
C33_Witness ==
    /\ diff_result.called
    /\ diff_result.old = <<0, 1, 0>>
    /\ diff_result.new = <<1, 1, 1>>
    /\ diff_result.diffs = << <<0, 0, 1>>, <<2, 0, 1>> >>

\* C34: no set_frequency fails in _configure_rf_path with the unknown-band error:
\* every band tag of a planner plan is one the driver accepts.
C34_PlannerBandsAccepted ==
    (last_call.op = "set_frequency" /\ last_call.apply.called) =>
        last_call.apply.msg # "Unknown frequency band"

\* C35: a set_frequency(f) made in STANDBY or READY for which the planner returned a
\* plan, and in which no lock-detect read was unlocked, ends in READY with current
\* frequency f.
C35_EveryPlanApplies ==
    (/\ SetFrequencyAccepted
     /\ last_call.apply.called
     /\ \A i \in LockReads(hw_trace) : hw_trace[i].v = 1) =>
        /\ state = READY
        /\ current_freq_hz = last_call.freq

\* the documented code of a channel divider ratio: 0 for 2, 1 for 4, ... 6 for 128
ChdivCode(ratio) ==
    CHOOSE c \in 0 .. 6 : 2 ^ (c + 1) = ratio

\* C36: after a set_frequency that returned, the N, output mux and output power
\* fields of the shadow read back as the plan's values, and the channel divider field
\* reads back as the documented code of the plan's ratio.
C36_FieldsReadBack ==
    SetFrequencySucceeded =>
        /\ get_field(reg_image[R_PLL_N], PLL_N_MASK, PLL_N_SHIFT) = last_call.plan.N
        /\ get_field(reg_image[R_OUTA_MUX], OUTA_MUX_MASK, OUTA_MUX_SHIFT)
              = last_call.plan.outa_mux
        /\ get_field(reg_image[R_RFOUTA_PWR], RFOUTA_PWR_MASK, RFOUTA_PWR_SHIFT)
              = last_call.plan.power
        /\ get_field(reg_image[R_CHDIV], CHDIV_MASK, CHDIV_SHIFT)
              = ChdivCode(last_call.plan.chdiv)

\* C37: the planner returns a plan for every frequency in 1..40 GHz that is a
\* multiple of 100 MHz.
C37_EveryValidFrequencyPlanned ==
    (/\ PlannerCalled
     /\ 1000 <= plan_result.freq /\ plan_result.freq <= 40000
     /\ plan_result.freq % 100 = 0) => plan_result.ok

\* C38: power_off and reset set the current frequency to None; a set_frequency that
\* returns sets it to its argument; a set_frequency that fails or is rejected, and
\* every other operation, leaves it as it was; and in READY the driver's current
\* plan is the planner's plan of the current frequency.
C38_CurrentFrequency ==
    [][/\ last_call'.op \in {"power_off", "reset"} => current_freq_hz' = NONE
       /\ last_call'.op = "set_frequency" =>
             IF last_call'.raised = NoExc /\ last_call'.apply.called
                   /\ last_call'.apply.msg = NoExc
             THEN current_freq_hz' = last_call'.freq
             ELSE current_freq_hz' = current_freq_hz
       /\ last_call'.op \in {"power_on", "disable_rf", "none"} =>
             current_freq_hz' = current_freq_hz
       /\ state' = READY =>
             /\ current_freq_hz' # NONE
             /\ current_plan' = compute_frequency_plan_integer_n(current_freq_hz').plan]_vars

\* C38 witness: a set_frequency failed after an earlier one had succeeded, and the
\* frequency of the earlier one is still recorded
C38_Witness ==
    /\ last_call.op = "set_frequency"
    /\ state = ERROR
    /\ last_call.pre_state = READY
    /\ current_freq_hz = 1000
    /\ last_call.freq = 3000

====
